---- MODULE Spec2Model ----
(***************************************************************************)
(* The scrape-and-report pipeline of the USCIS worker scripts.             *)
(*                                                                         *)
(* The repository holds several variants of one script.  Each variant is  *)
(* modelled by its own actions, translated from its own main function:    *)
(*                                                                         *)
(*   "forceQueue"     src/scripts/uscis_check.cjs   1-329                  *)
(*   "directForm"     src/unnamed/part_001          1-403                  *)
(*   "retry"          src/unnamed/part_003          88-373                 *)
(*   "freshContext"   src/unnamed/part_004          1-273                  *)
(*   "primaryLegacy"  src/scripts/uscis_check.cjs   618-803                *)
(*   "webhook"        src/unnamed/part_000          1-314                  *)
(*                                                                         *)
(* The outside world (the queue API, the report API, the target site, the *)
(* browser) is a nondeterministic choice made in each action.  Closing a  *)
(* page, a context or the browser is taken to succeed.  A rejected        *)
(* promise nobody handles ends the process with exit code 1 (Node 15+).   *)
(***************************************************************************)
EXTENDS Integers, Sequences, FiniteSets, TLC

\* Longest queue payload the API returns in the model.
MaxQueue == 2

\* A run and its repetition.
Runs == {1, 2}

Variants == {"forceQueue", "directForm", "retry", "freshContext", "primaryLegacy", "webhook"}

(***************************************************************************)
(* Queue payload entries.  An entry either is null or carries (or lacks)  *)
(* a non-empty receipt_number and a tramite_id.                            *)
(***************************************************************************)
ItemKinds == {"full", "noTid", "noRn", "bare", "null"}

HasRn(k) == k \in {"full", "noTid"}

HasTid(k) == k \in {"full", "noRn"}

IsNull(k) == k = "null"

Payloads == UNION {[1..n -> ItemKinds] : n \in 0..MaxQueue}

\* What a GET or a POST can meet.
GetOutcomes == {"ok", "http_error", "net_error", "bad_json"}

PostOutcomes == {"ok", "http_error", "net_error"}

\* What one scrape attempt against the target site can meet.
AttemptOutcomes == {"ok", "empty", "cf_block", "no_input", "error"}

VARIABLES
    variant,     \* which script runs
    run,         \* 1 for the run, 2 for its repetition
    pc,          \* "boot", "start", "items", "reportFailed", "waiting", "done"
    fetched,     \* outcome of the queue GET ("none" before it)
    payload,     \* the item array the API returned
    queue,       \* the work list: <<[id, kind]>>, id = position in the payload
    idx,         \* number of work-list entries the item loop has consumed
    successes,   \* success batch: <<[id, tid]>>
    failures,    \* failure batch: <<[id, error]>>
    tried,       \* attempts made for the item processed last: <<[url, outcome]>>
    browser,     \* "none", "open", "closed"
    pages,       \* pages (or per-item contexts) currently open
    requests,    \* HTTP requests sent to the API: <<[ep, ok, at, body]>>
    exitCode,    \* -1 while running, then the process exit code
    finished,    \* the "Scraping Cycle Finished" line was logged
    env,         \* how API_BASE and API_TOKEN are set in the environment
    calc,        \* one call of a helper function (HelperSpec only)
    cf,          \* one call of the challenge handler (ChallengeSpec only)
    gap          \* the pause made after the item scraped last: "none", "jitter"

vars == <<variant, run, pc, fetched, payload, queue, idx, successes, failures,
          tried, browser, pages, requests, exitCode, finished, env, calc, cf, gap>>

\* The state at process start.
Blank(v, r) ==
    /\ variant = v
    /\ run = r
    /\ pc = "boot"
    /\ fetched = "none"
    /\ payload = <<>>
    /\ queue = <<>>
    /\ idx = 0
    /\ successes = <<>>
    /\ failures = <<>>
    /\ tried = <<>>
    /\ browser = "none"
    /\ pages = 0
    /\ requests = <<>>
    /\ exitCode = -1
    /\ finished = FALSE
    /\ gap = "none"

\* No challenge handler call is followed.
NoCall == [clock |-> 0, probes |-> 0, never |-> TRUE, clearsAt |-> 0,
           clearsTo |-> "form", result |-> "idle"]

\* No helper call is followed.
NoCalc == [op |-> "none", in |-> <<>>, out |-> <<>>, done |-> FALSE]

\* An environment variable is set to a usable value, set to white space, or unset.
EnvValues == {"set", "blank", "missing"}

\* The environments a run is started in: at most one variable is not set properly.
Envs == {e \in [base : EnvValues, token : EnvValues] : e.base = "set" \/ e.token = "set"}

Init ==
    /\ \E v \in Variants : Blank(v, 1)
    /\ env \in Envs
    /\ cf = NoCall
    /\ calc = NoCalc

\* The configuration check at the top of each script: which values pass.
\*   forceQueue     uscis_check.cjs 28-34   both trimmed
\*   directForm     part_001 261            neither trimmed
\*   retry          part_003 95-104         API_BASE trimmed
\*   freshContext   part_004 26-36          API_BASE trimmed, API_TOKEN not required
\*   primaryLegacy  uscis_check.cjs 629-637 API_BASE trimmed
\*   webhook        part_000 56-63          API_BASE trimmed
ConfigOk(v, e) ==
    CASE v = "forceQueue" -> e.base = "set" /\ e.token = "set"
      [] v = "directForm" -> e.base # "missing" /\ e.token # "missing"
      [] v = "freshContext" -> e.base = "set"
      [] OTHER -> e.base = "set" /\ e.token # "missing"

\* The exit code of a failed configuration check.
ConfigExit(v) == IF v \in {"freshContext", "webhook"} THEN 2 ELSE 1

\* Module top level (in part_001: the first statement of main): the check.
Boot ==
    /\ pc = "boot"
    /\ IF ConfigOk(variant, env)
       THEN pc' = "start" /\ exitCode' = exitCode
       ELSE pc' = "done" /\ exitCode' = ConfigExit(variant)
    /\ UNCHANGED <<calc, gap, cf, env, variant, run, fetched, payload, queue, idx, successes, failures,
                   tried, browser, pages, requests, finished>>

\* The pause the item loop of variant v makes at the end of an iteration in
\* which an item was scraped (last: the item was the last of the queue):
\* sleep(1200 + Math.random() * 1200) in the force-queue loop, the sleep of
\* the finally block in part_001, sleep(1500 + Math.random() * 1500) in the
\* primary/legacy loop, jitter(min, max) before the next item in part_000.
\* The loops of part_003 main and part_004 processQueue have no sleep.
ItemGap(v, last) ==
    CASE v \in {"forceQueue", "directForm", "primaryLegacy"} -> "jitter"
      [] v = "webhook" -> IF last THEN "none" ELSE "jitter"
      [] OTHER -> "none"

\* One request as logged in requests: endpoint, whether it succeeded, the loop
\* position when it was sent, and the items of its body.
Req(ep, ok, body) == [ep |-> ep, ok |-> ok, at |-> idx, body |-> body]

\* The payload with each entry's position as its identity.
Indexed(p) == [i \in 1..Len(p) |-> [id |-> i, kind |-> p[i]]]

Att(url, outcome) == [url |-> url, outcome |-> outcome]

\* A loop that takes the entries from the end of the list.
FromLast(q, i) == q[Len(q) - i]

\* for (const item of items): the entry the loop takes after i entries.
NextItem(q, i) == q[i + 1]

(***************************************************************************)
(* Variant "forceQueue": src/scripts/uscis_check.cjs 1-329.                *)
(***************************************************************************)

\* Queue normalisation: entries whose trimmed receipt_number is empty are filtered out.
ForceNormalize(p) == SelectSeq(Indexed(p), LAMBDA it : HasRn(it.kind))

\* scrapeCase: the direct URL, then the form flow on the same page; never throws.
\* a1 is what tryDirectResults meets, a2 what tryFormFlow meets.
scrapeCase(a1, a2) ==
    IF a1 = "ok"
    THEN [ok |-> TRUE, error |-> "none", tried |-> <<Att("direct", a1)>>]
    ELSE IF a1 = "error"
    THEN [ok |-> FALSE, error |-> "error", tried |-> <<Att("direct", a1)>>]
    ELSE [ok |-> a2 = "ok",
          error |-> CASE a2 = "ok" -> "none"
                      [] a2 = "no_input" -> "Receipt input not found"
                      [] a2 = "empty" -> "Unable to extract status text"
                      [] OTHER -> "error",
          tried |-> <<Att("direct", a1), Att("form", a2)>>]

\* An empty queue that exits with a failure code.
EmptyQueueFails(q) == IF q = <<>> THEN 1 ELSE -1

\* Lines 283-288: with an empty queue the process exits with code 0; otherwise
\* the run goes on (-1).
EmptyQueueExit(q) == IF q = <<>> THEN 0 ELSE -1

\* main up to the item loop: launch, one shared page, queue GET (soft-fail), early exit.
ForceFetch ==
    /\ variant = "forceQueue"
    /\ pc = "start"
    /\ \E g \in GetOutcomes, p \in Payloads :
          /\ g = "ok" \/ p = <<>>
          /\ fetched' = g
          /\ payload' = p
          /\ queue' = ForceNormalize(p)
          /\ requests' = Append(requests, Req("queue", g = "ok", <<>>))
          /\ IF ForceNormalize(p) = <<>>
             THEN /\ browser' = "closed"
                  /\ pages' = 0
                  /\ pc' = "done"
             ELSE /\ browser' = "open"
                  /\ pages' = 1
                  /\ pc' = "items"
          /\ exitCode' = EmptyQueueExit(ForceNormalize(p))
    /\ UNCHANGED <<calc, gap, cf, env, variant, run, idx, successes, failures, tried, finished>>

\* One iteration of the item loop.
ForceItem ==
    /\ variant = "forceQueue"
    /\ pc = "items"
    /\ idx < Len(queue)
    /\ \E a1 \in {"ok", "empty", "error"}, a2 \in {"ok", "empty", "no_input", "error"} :
          LET item == queue[idx + 1]
              result == scrapeCase(a1, a2)
          IN  /\ successes' = IF result.ok /\ HasTid(item.kind)
                              THEN Append(successes, [id |-> item.id, tid |-> TRUE])
                              ELSE successes
              /\ failures' = IF ~result.ok
                             THEN Append(failures, [id |-> item.id, error |-> result.error])
                             ELSE failures
              /\ tried' = result.tried
    /\ idx' = idx + 1
    /\ gap' = IF idx' > idx /\ tried' # <<>>
              THEN ItemGap(variant, idx' = Len(queue))
              ELSE gap
    /\ UNCHANGED <<calc, cf, env, variant, run, pc, fetched, payload, queue, browser, pages, requests,
                   exitCode, finished>>

\* After the loop: the success batch; a failed POST rejects main and nothing handles it.
ForceReportSuccess ==
    /\ variant = "forceQueue"
    /\ pc = "items"
    /\ idx = Len(queue)
    /\ IF successes = <<>>
       THEN /\ pc' = "reportFailed"
            /\ UNCHANGED <<requests, exitCode>>
       ELSE \E o \in PostOutcomes :
               /\ requests' = Append(requests, Req("report", o = "ok", successes))
               /\ pc' = IF o = "ok" THEN "reportFailed" ELSE "done"
               /\ exitCode' = IF o = "ok" THEN exitCode ELSE 1
    /\ UNCHANGED <<calc, gap, cf, env, variant, run, fetched, payload, queue, idx, successes, failures, tried,
                   browser, pages, finished>>

\* The failure batch, then browser.close() and the end of main.
ForceReportFailed ==
    /\ variant = "forceQueue"
    /\ pc = "reportFailed"
    /\ \E o \in PostOutcomes :
          /\ failures = <<>> => o = "ok"
          /\ requests' = IF failures = <<>> THEN requests
                         ELSE Append(requests, Req("report-failed", o = "ok", failures))
          /\ browser' = IF o = "ok" THEN "closed" ELSE browser
          /\ pages' = IF o = "ok" THEN 0 ELSE pages
          /\ finished' = (o = "ok")
          /\ exitCode' = IF o = "ok" THEN 0 ELSE 1
    /\ pc' = "done"
    /\ UNCHANGED <<calc, gap, cf, env, variant, run, fetched, payload, queue, idx, successes, failures, tried>>

(***************************************************************************)
(* Variant "directForm": src/unnamed/part_001.                             *)
(***************************************************************************)

\* The length, in characters, of the content of the result container an
\* attempt finds: a full status block, a near-empty container, or nothing.
ContentLen(a) ==
    CASE a = "ok" -> 250
      [] a = "short" -> 50
      [] OTHER -> 0

\* extractStatusHtml: the container's outerHTML is returned when its trimmed
\* length is above 0, otherwise null (FALSE).
extractStatusHtml(len) == len > 0

\* Loop body lines 333-344: tryDirectResults on the item's page and, when it
\* returns null, tryFormFlow on a second page.  a1 is what tryDirectResults
\* meets, page2Fail whether ctx.newPage() throws for the second page, a2 what
\* tryFormFlow meets.  "leaked" counts the second page left open when
\* tryFormFlow throws before page2.close().
DirectScrape(a1, page2Fail, a2) ==
    IF a1 = "error"
    THEN [html |-> FALSE, error |-> "error", tried |-> <<Att("direct", a1)>>, leaked |-> 0]
    ELSE IF extractStatusHtml(ContentLen(a1))
    THEN [html |-> TRUE, error |-> "none", tried |-> <<Att("direct", a1)>>, leaked |-> 0]
    ELSE IF page2Fail
    THEN [html |-> FALSE, error |-> "error", tried |-> <<Att("direct", a1)>>, leaked |-> 0]
    ELSE LET html == a2 \notin {"no_input", "error"} /\ extractStatusHtml(ContentLen(a2)) IN
         [html |-> html,
          error |-> CASE html -> "none"
                      [] a2 = "no_input" -> "Receipt input not found"
                      [] a2 = "empty" -> "No status content found"
                      [] OTHER -> "error",
          tried |-> <<Att("direct", a1), Att("form", a2)>>,
          leaked |-> IF html THEN 0 ELSE 1]

\* main up to the item loop: queue GET (soft-fail), early return, browser launch.
DirectFetch ==
    /\ variant = "directForm"
    /\ pc = "start"
    /\ \E g \in GetOutcomes, p \in Payloads :
          /\ g = "ok" \/ p = <<>>
          /\ env.base = "blank" => g = "net_error"
          /\ fetched' = g
          /\ payload' = p
          /\ queue' = Indexed(p)
          /\ requests' = Append(requests, Req("queue", g = "ok", <<>>))
          /\ IF p = <<>>
             THEN /\ pc' = "done"
                  /\ exitCode' = 0
                  /\ browser' = browser
             ELSE /\ pc' = "items"
                  /\ exitCode' = exitCode
                  /\ browser' = "open"
    /\ UNCHANGED <<calc, gap, cf, env, variant, run, idx, successes, failures, tried, pages, finished>>

\* One iteration of the item loop.  The receipt is read and the page is opened
\* before the try block: a null entry or a failing ctx.newPage() rejects main.
DirectItem ==
    /\ variant = "directForm"
    /\ pc = "items"
    /\ idx < Len(queue)
    /\ LET item == NextItem(queue, idx) IN
       IF IsNull(item.kind)
       THEN /\ pc' = "done"
            /\ exitCode' = 1
            /\ UNCHANGED <<idx, successes, failures, tried, pages>>
       ELSE IF ~HasRn(item.kind)
       THEN /\ idx' = idx + 1
            /\ tried' = <<>>
            /\ UNCHANGED <<pc, exitCode, successes, failures, pages>>
       ELSE \E pageFail, page2Fail \in BOOLEAN,
               a1 \in {"ok", "short", "empty", "error"},
               a2 \in {"ok", "short", "empty", "no_input", "error"} :
               IF pageFail
               THEN /\ pc' = "done"
                    /\ exitCode' = 1
                    /\ UNCHANGED <<idx, successes, failures, tried, pages>>
               ELSE LET r == DirectScrape(a1, page2Fail, a2) IN
                    /\ successes' = IF r.html /\ HasTid(item.kind)
                                    THEN Append(successes, [id |-> item.id, tid |-> TRUE])
                                    ELSE successes
                    /\ failures' =
                          IF r.html /\ ~HasTid(item.kind)
                          THEN Append(failures, [id |-> item.id,
                                                 error |-> "Missing tramite_id in queue item"])
                          ELSE IF ~r.html
                          THEN Append(failures, [id |-> item.id, error |-> r.error])
                          ELSE failures
                    /\ tried' = r.tried
                    /\ pages' = pages + r.leaked
                    /\ idx' = idx + 1
                    /\ UNCHANGED <<pc, exitCode>>
    /\ gap' = IF idx' > idx /\ tried' # <<>>
              THEN ItemGap(variant, idx' = Len(queue))
              ELSE gap
    /\ UNCHANGED <<calc, cf, env, variant, run, fetched, payload, queue, browser, requests, finished>>

\* The success batch: a failed POST closes the browser and is rethrown.
DirectReportSuccess ==
    /\ variant = "directForm"
    /\ pc = "items"
    /\ idx = Len(queue)
    /\ IF successes = <<>>
       THEN /\ pc' = "reportFailed"
            /\ UNCHANGED <<requests, exitCode, browser, pages>>
       ELSE \E o \in PostOutcomes :
               /\ requests' = Append(requests, Req("report", o = "ok", successes))
               /\ pc' = IF o = "ok" THEN "reportFailed" ELSE "done"
               /\ exitCode' = IF o = "ok" THEN exitCode ELSE 1
               /\ browser' = IF o = "ok" THEN browser ELSE "closed"
               /\ pages' = IF o = "ok" THEN pages ELSE 0
    /\ UNCHANGED <<calc, gap, cf, env, variant, run, fetched, payload, queue, idx, successes, failures, tried,
                   finished>>

\* The failure batch (a failed POST is only logged), browser.close(), end of main.
DirectReportFailed ==
    /\ variant = "directForm"
    /\ pc = "reportFailed"
    /\ \E o \in PostOutcomes :
          /\ failures = <<>> => o = "ok"
          /\ requests' = IF failures = <<>> THEN requests
                         ELSE Append(requests, Req("report-failed", o = "ok", failures))
    /\ browser' = "closed"
    /\ pages' = 0
    /\ finished' = TRUE
    /\ exitCode' = 0
    /\ pc' = "done"
    /\ UNCHANGED <<calc, gap, cf, env, variant, run, fetched, payload, queue, idx, successes, failures, tried>>

(***************************************************************************)
(* Variant "retry": src/unnamed/part_003 88-373.                           *)
(***************************************************************************)

\* The message scrapeOne throws for what an attempt meets.
RetryMsg(a) ==
    CASE a = "cf_block" -> "Cloudflare guard did not finish in time"
      [] a = "no_input" -> "Receipt input not found"
      [] OTHER -> "error"

\* What the landing page does during one attempt: it shows the receipt input
\* and the flow works, it shows the challenge for the whole wait, it never
\* shows the receipt input (and no challenge), it shows the input and takes
\* it away before firstVisible looks, the navigation throws, or the form
\* works and the challenge comes back after the submit and stays.
RetryPages == {"works", "challenge", "no_input", "input_vanishes", "broken",
               "challenge_after"}

\* passCloudflare returns true only once a receipt input is visible; with no
\* input, challenge or not, it polls until maxWaitMs and returns false.
passCloudflare(page) == page \in {"works", "input_vanishes", "challenge_after"}

\* The call after the submit, `await passCloudflare(page, { maxWaitMs: 45000 })`:
\* false when the challenge is still there at the end of the wait.
passCloudflareAfterSubmit(page) == page # "challenge_after"

\* How one attempt of scrapeOne ends on such a page.
RetryAttempt(page) ==
    CASE page = "broken" -> "error"
      [] ~passCloudflare(page) -> "cf_block"
      [] page = "input_vanishes" -> "no_input"
      [] passCloudflareAfterSubmit(page) -> "ok"
      [] OTHER -> "ok"     \* the value of the second call is discarded

\* scrapeOne: two attempts on the shared page; every error of an attempt,
\* the challenge timeout included, is caught and the next attempt follows.
scrapeOne(a1, a2) ==
    IF a1 = "ok"
    THEN [ok |-> TRUE, error |-> <<>>, tried |-> <<Att("landing", a1)>>]
    ELSE IF a2 = "ok"
    THEN [ok |-> TRUE, error |-> <<>>, tried |-> <<Att("landing", a1), Att("landing", a2)>>]
    ELSE [ok |-> FALSE, error |-> <<RetryMsg(a1), RetryMsg(a2)>>,
          tried |-> <<Att("landing", a1), Att("landing", a2)>>]

\* main up to the item loop: fetchQueue (soft-fail), early return, launchBrowser.
RetryFetch ==
    /\ variant = "retry"
    /\ pc = "start"
    /\ \E g \in GetOutcomes, p \in Payloads :
          /\ g = "ok" \/ p = <<>>
          /\ fetched' = g
          /\ payload' = p
          /\ queue' = Indexed(p)
          /\ requests' = Append(requests, Req("queue", g = "ok", <<>>))
          /\ IF p = <<>>
             THEN /\ pc' = "done"
                  /\ exitCode' = 0
                  /\ browser' = browser
                  /\ pages' = pages
             ELSE /\ pc' = "items"
                  /\ exitCode' = exitCode
                  /\ browser' = "open"
                  /\ pages' = 1
    /\ UNCHANGED <<calc, gap, cf, env, variant, run, idx, successes, failures, tried, finished>>

\* One iteration of the item loop, inside try/finally: a null entry throws,
\* the finally block closes context and browser, main rejects.
RetryItem ==
    /\ variant = "retry"
    /\ pc = "items"
    /\ idx < Len(queue)
    /\ LET item == queue[idx + 1] IN
       IF IsNull(item.kind)
       THEN /\ pc' = "done"
            /\ exitCode' = 1
            /\ browser' = "closed"
            /\ pages' = 0
            /\ UNCHANGED <<idx, successes, failures, tried>>
       ELSE IF ~HasRn(item.kind)
       THEN /\ idx' = idx + 1
            /\ tried' = <<>>
            /\ UNCHANGED <<pc, exitCode, browser, pages, successes, failures>>
       ELSE \E p1, p2 \in RetryPages :
               LET result == scrapeOne(RetryAttempt(p1), RetryAttempt(p2))
                   shown == <<p1, p2>> IN
               /\ successes' = IF result.ok
                               THEN Append(successes, [id |-> item.id,
                                                       tid |-> HasTid(item.kind)])
                               ELSE successes
               /\ failures' = IF ~result.ok
                              THEN Append(failures, [id |-> item.id, error |-> result.error])
                              ELSE failures
               /\ tried' = [i \in DOMAIN result.tried |->
                              [url |-> result.tried[i].url,
                               outcome |-> result.tried[i].outcome,
                               page |-> shown[i]]]
               /\ idx' = idx + 1
               /\ UNCHANGED <<pc, exitCode, browser, pages>>
    /\ gap' = IF idx' > idx /\ tried' # <<>>
              THEN ItemGap(variant, idx' = Len(queue))
              ELSE gap
    /\ UNCHANGED <<calc, cf, env, variant, run, fetched, payload, queue, requests, finished>>

\* The finally block after the loop, then the success batch; a failed POST is
\* caught and logged.
RetryReportSuccess ==
    /\ variant = "retry"
    /\ pc = "items"
    /\ idx = Len(queue)
    /\ browser' = "closed"
    /\ pages' = 0
    /\ \E o \in PostOutcomes :
          /\ successes = <<>> => o = "ok"
          /\ requests' = IF successes = <<>> THEN requests
                         ELSE Append(requests, Req("report", o = "ok", successes))
    /\ pc' = "reportFailed"
    /\ UNCHANGED <<calc, gap, cf, env, variant, run, fetched, payload, queue, idx, successes, failures, tried,
                   exitCode, finished>>

\* The failure batch; a failed POST is caught and logged; end of main.
RetryReportFailed ==
    /\ variant = "retry"
    /\ pc = "reportFailed"
    /\ \E o \in PostOutcomes :
          /\ failures = <<>> => o = "ok"
          /\ requests' = IF failures = <<>> THEN requests
                         ELSE Append(requests, Req("report-failed", o = "ok", failures))
    /\ finished' = TRUE
    /\ exitCode' = 0
    /\ pc' = "done"
    /\ UNCHANGED <<calc, gap, cf, env, variant, run, fetched, payload, queue, idx, successes, failures, tried,
                   browser, pages>>

(***************************************************************************)
(* Variant "freshContext": src/unnamed/part_004 1-273.                     *)
(***************************************************************************)

\* The message scrapeOne (part_004) throws for what its single attempt meets.
FreshMsg(a) ==
    CASE a = "cf_block" -> "Cloudflare guard did not finish in time"
      [] a = "no_input" -> "input timeout"
      [] OTHER -> "error"

\* main up to processQueue's loop: getQueue throws on any failure of the GET
\* (main rejects, exit 1); an empty queue returns; else the browser is launched.
FreshFetch ==
    /\ variant = "freshContext"
    /\ pc = "start"
    /\ \E g \in GetOutcomes, p \in Payloads :
          /\ g = "ok" \/ p = <<>>
          /\ fetched' = g
          /\ payload' = p
          /\ queue' = Indexed(p)
          /\ requests' = Append(requests, Req("queue", g = "ok", <<>>))
          /\ IF g # "ok"
             THEN /\ pc' = "done"
                  /\ exitCode' = 1
                  /\ browser' = browser
             ELSE IF p = <<>>
             THEN /\ pc' = "done"
                  /\ exitCode' = 0
                  /\ browser' = browser
             ELSE /\ pc' = "items"
                  /\ exitCode' = exitCode
                  /\ browser' = "open"
    /\ UNCHANGED <<calc, gap, cf, env, variant, run, idx, successes, failures, tried, pages, finished>>

\* One iteration of processQueue's loop: a fresh context per item, closed in
\* the finally block.  A null entry throws in the try block and again in the
\* catch block, so processQueue rejects after its outer finally closed the browser.
FreshItem ==
    /\ variant = "freshContext"
    /\ pc = "items"
    /\ idx < Len(queue)
    /\ LET item == NextItem(queue, idx) IN
       IF IsNull(item.kind)
       THEN /\ pc' = "done"
            /\ exitCode' = 1
            /\ browser' = "closed"
            /\ UNCHANGED <<idx, successes, failures, tried>>
       ELSE \E ctxFail \in BOOLEAN, a1 \in {"ok", "cf_block", "no_input", "error"} :
               /\ successes' = IF ~ctxFail /\ HasRn(item.kind) /\ a1 = "ok"
                               THEN Append(successes, [id |-> item.id,
                                                       tid |-> HasTid(item.kind)])
                               ELSE successes
               /\ failures' =
                     IF ctxFail
                     THEN Append(failures, [id |-> item.id, error |-> "error"])
                     ELSE IF ~HasRn(item.kind)
                     THEN Append(failures, [id |-> item.id,
                                            error |-> "Missing receipt_number"])
                     ELSE IF a1 # "ok"
                     THEN Append(failures, [id |-> item.id, error |-> FreshMsg(a1)])
                     ELSE failures
               /\ tried' = IF ctxFail \/ ~HasRn(item.kind) THEN <<>>
                           ELSE <<Att("landing", a1)>>
               /\ idx' = idx + 1
               /\ UNCHANGED <<pc, exitCode, browser>>
    /\ gap' = IF idx' > idx /\ tried' # <<>>
              THEN ItemGap(variant, idx' = Len(queue))
              ELSE gap
    /\ UNCHANGED <<calc, cf, env, variant, run, fetched, payload, queue, pages, requests, finished>>

\* processQueue's outer finally, then main's success batch: a failed POST
\* rejects main.
FreshReportSuccess ==
    /\ variant = "freshContext"
    /\ pc = "items"
    /\ idx = Len(queue)
    /\ browser' = "closed"
    /\ \E o \in PostOutcomes :
          /\ successes = <<>> => o = "ok"
          /\ requests' = IF successes = <<>> THEN requests
                         ELSE Append(requests, Req("report", o = "ok", successes))
          /\ pc' = IF o = "ok" THEN "reportFailed" ELSE "done"
          /\ exitCode' = IF o = "ok" THEN exitCode ELSE 1
    /\ UNCHANGED <<calc, gap, cf, env, variant, run, fetched, payload, queue, idx, successes, failures, tried,
                   pages, finished>>

\* main's failure batch: a failed POST rejects main as well.
FreshReportFailed ==
    /\ variant = "freshContext"
    /\ pc = "reportFailed"
    /\ \E o \in PostOutcomes :
          /\ failures = <<>> => o = "ok"
          /\ requests' = IF failures = <<>> THEN requests
                         ELSE Append(requests, Req("report-failed", o = "ok", failures))
          /\ finished' = (o = "ok")
          /\ exitCode' = IF o = "ok" THEN 0 ELSE 1
    /\ pc' = "done"
    /\ UNCHANGED <<calc, gap, cf, env, variant, run, fetched, payload, queue, idx, successes, failures, tried,
                   browser, pages>>

(***************************************************************************)
(* Variant "primaryLegacy": src/scripts/uscis_check.cjs 618-803.           *)
(***************************************************************************)

\* scrapeReceiptOnUrl's result for what the attempt meets: html set or not,
\* and the error tag ("null" when no error is set).
\* A scrape whose result carries an error even when the status block was read.
scrapeWithStaleError(a) ==
    CASE a = "ok" -> [html |-> TRUE, error |-> "generic_error"]
      [] a = "empty" -> [html |-> FALSE, error |-> "null"]
      [] a = "cf_block" -> [html |-> FALSE, error |-> "cloudflare_block"]
      [] a = "no_input" -> [html |-> FALSE, error |-> "element_timeout"]
      [] OTHER -> [html |-> FALSE, error |-> "generic_error"]

scrapeReceiptOnUrl(a) ==
    CASE a = "ok" -> [html |-> TRUE, error |-> "null"]
      [] a = "empty" -> [html |-> FALSE, error |-> "null"]
      [] a = "cf_block" -> [html |-> FALSE, error |-> "cloudflare_block"]
      [] a = "no_input" -> [html |-> FALSE, error |-> "element_timeout"]
      [] OTHER -> [html |-> FALSE, error |-> "generic_error"]

\* What an attempt can meet: without a receipt number input.fill() throws.
LegacyOutcomes(kind) ==
    IF HasRn(kind) THEN AttemptOutcomes ELSE {"cf_block", "no_input", "error"}

\* main up to the item loop: any failure of the queue GET ends in process.exit(1).
LegacyFetch ==
    /\ variant = "primaryLegacy"
    /\ pc = "start"
    /\ \E g \in GetOutcomes, p \in Payloads :
          /\ g = "ok" \/ p = <<>>
          /\ fetched' = g
          /\ payload' = p
          /\ queue' = Indexed(p)
          /\ requests' = Append(requests, Req("queue", g = "ok", <<>>))
          /\ IF g # "ok"
             THEN /\ pc' = "done"
                  /\ exitCode' = 1
                  /\ browser' = browser
             ELSE IF p = <<>>
             THEN /\ pc' = "done"
                  /\ exitCode' = 0
                  /\ browser' = browser
             ELSE /\ pc' = "items"
                  /\ exitCode' = exitCode
                  /\ browser' = "open"
    /\ UNCHANGED <<calc, gap, cf, env, variant, run, idx, successes, failures, tried, pages, finished>>

\* One iteration of the item loop: the landing URL and, when its result
\* carries an error, the legacy URL.  The loop has no try block: a null entry
\* or a failing context.newPage() (called before scrapeReceiptOnUrl's try)
\* rejects main, which nothing handles.
LegacyItem ==
    /\ variant = "primaryLegacy"
    /\ pc = "items"
    /\ idx < Len(queue)
    /\ LET item == queue[idx + 1] IN
       IF IsNull(item.kind)
       THEN /\ pc' = "done"
            /\ exitCode' = 1
            /\ UNCHANGED <<idx, successes, failures, tried>>
       ELSE \E pageFail, page2Fail \in BOOLEAN,
               a1, a2 \in LegacyOutcomes(item.kind) :
               LET first == scrapeReceiptOnUrl(a1)
                   again == first.error # "null"
                   result == IF again THEN scrapeReceiptOnUrl(a2) ELSE first
               IN
               IF pageFail \/ (again /\ page2Fail)
               THEN /\ pc' = "done"
                    /\ exitCode' = 1
                    /\ tried' = IF pageFail THEN <<>> ELSE <<Att("landing", a1)>>
                    /\ UNCHANGED <<idx, successes, failures>>
               ELSE /\ successes' = IF result.html
                                    THEN Append(successes, [id |-> item.id,
                                                            tid |-> HasTid(item.kind)])
                                    ELSE successes
                    /\ failures' = IF ~result.html
                                   THEN Append(failures, [id |-> item.id,
                                                          error |-> result.error])
                                   ELSE failures
                    /\ tried' = IF again
                                THEN <<Att("landing", a1), Att("legacy", a2)>>
                                ELSE <<Att("landing", a1)>>
                    /\ idx' = idx + 1
                    /\ UNCHANGED <<pc, exitCode>>
    /\ gap' = IF idx' > idx /\ tried' # <<>>
              THEN ItemGap(variant, idx' = Len(queue))
              ELSE gap
    /\ UNCHANGED <<calc, cf, env, variant, run, fetched, payload, queue, browser, pages, requests,
                   finished>>

\* reportToApi('report', ...): every failure of the POST is logged inside reportToApi.
LegacyReportSuccess ==
    /\ variant = "primaryLegacy"
    /\ pc = "items"
    /\ idx = Len(queue)
    /\ \E o \in PostOutcomes :
          /\ successes = <<>> => o = "ok"
          /\ requests' = IF successes = <<>> THEN requests
                         ELSE Append(requests, Req("report", o = "ok", successes))
    /\ pc' = "reportFailed"
    /\ UNCHANGED <<calc, gap, cf, env, variant, run, fetched, payload, queue, idx, successes, failures, tried,
                   browser, pages, exitCode, finished>>

\* reportToApi('report-failed', ...), browser.close(), end of main.
LegacyReportFailed ==
    /\ variant = "primaryLegacy"
    /\ pc = "reportFailed"
    /\ \E o \in PostOutcomes :
          /\ failures = <<>> => o = "ok"
          /\ requests' = IF failures = <<>> THEN requests
                         ELSE Append(requests, Req("report-failed", o = "ok", failures))
    /\ browser' = "closed"
    /\ finished' = TRUE
    /\ exitCode' = 0
    /\ pc' = "done"
    /\ UNCHANGED <<calc, gap, cf, env, variant, run, fetched, payload, queue, idx, successes, failures, tried,
                   pages>>

(***************************************************************************)
(* Variant "webhook": src/unnamed/part_000.                                *)
(***************************************************************************)

\* run up to the item loop: a rejected fetch rejects run, a non-2xx answer
\* exits 1, a body that is not JSON gives an empty list.  Every entry's
\* receipt_number is logged before the browser is launched.
WebhookFetch ==
    /\ variant = "webhook"
    /\ pc = "start"
    /\ \E g \in GetOutcomes \cup {"pending"}, p \in Payloads :
          /\ g = "ok" \/ p = <<>>
          /\ fetched' = g
          /\ payload' = p
          /\ queue' = Indexed(p)
          /\ requests' = Append(requests, Req("queue", g = "ok", <<>>))
          /\ IF g = "pending"
             THEN /\ pc' = "waiting"
                  /\ UNCHANGED <<exitCode, browser>>
             ELSE IF g \in {"net_error", "http_error"} \/ (\E i \in 1..Len(p) : IsNull(p[i]))
             THEN /\ pc' = "done"
                  /\ exitCode' = 1
                  /\ browser' = browser
             ELSE IF p = <<>>
             THEN /\ pc' = "done"
                  /\ exitCode' = 0
                  /\ browser' = browser
             ELSE /\ pc' = "items"
                  /\ exitCode' = exitCode
                  /\ browser' = "open"
    /\ UNCHANGED <<calc, gap, cf, env, variant, run, idx, successes, failures, tried, pages, finished>>

\* httpJson passes its options to node-fetch as they are, and no caller sets
\* `timeout`: a request the API never answers stays pending ("pending") and
\* the await never returns (pc "waiting").
\* One iteration of the item loop, inside try/finally: scrapeOne in its own
\* context, then the webhook POST for this item.  browser.newContext() and
\* context.newPage() are called before scrapeOne's try; a rejected fetch of
\* the POST rejects run; both leave through the finally block.
WebhookItem ==
    /\ variant = "webhook"
    /\ pc = "items"
    /\ idx < Len(queue)
    /\ LET item == queue[idx + 1] IN
       \E ctxFail \in BOOLEAN, o \in PostOutcomes \cup {"pending"},
          a1 \in (IF HasRn(item.kind) THEN AttemptOutcomes
                  ELSE {"cf_block", "no_input", "error"}) :
          IF ctxFail
          THEN /\ pc' = "done"
               /\ exitCode' = 1
               /\ browser' = "closed"
               /\ UNCHANGED <<idx, tried, requests>>
          ELSE /\ tried' = <<Att("landing", a1)>>
               /\ requests' = Append(requests,
                                     [ep |-> "webhook", ok |-> o = "ok", at |-> idx + 1,
                                      body |-> <<[id |-> item.id, ok |-> a1 = "ok"]>>])
               /\ IF o = "pending"
                  THEN /\ pc' = "waiting"
                       /\ UNCHANGED <<idx, exitCode, browser>>
                  ELSE IF o = "net_error"
                  THEN /\ pc' = "done"
                       /\ exitCode' = 1
                       /\ browser' = "closed"
                       /\ idx' = idx
                  ELSE /\ idx' = idx + 1
                       /\ UNCHANGED <<pc, exitCode, browser>>
    /\ gap' = IF idx' > idx /\ tried' # <<>>
              THEN ItemGap(variant, idx' = Len(queue))
              ELSE gap
    /\ UNCHANGED <<calc, cf, env, variant, run, fetched, payload, queue, successes, failures, pages,
                   finished>>

\* The finally block after the loop and the end of run.
WebhookFinish ==
    /\ variant = "webhook"
    /\ pc = "items"
    /\ idx = Len(queue)
    /\ browser' = "closed"
    /\ finished' = TRUE
    /\ exitCode' = 0
    /\ pc' = "done"
    /\ UNCHANGED <<calc, gap, cf, env, variant, run, fetched, payload, queue, idx, successes, failures, tried,
                   pages, requests>>

\* The process is started again (the scheduler's next run).
Restart ==
    /\ pc = "done"
    /\ run + 1 \in Runs
    /\ run' = run + 1
    /\ pc' = "boot"
    /\ fetched' = "none"
    /\ payload' = <<>>
    /\ queue' = <<>>
    /\ idx' = 0
    /\ successes' = <<>>
    /\ failures' = <<>>
    /\ tried' = <<>>
    /\ browser' = "none"
    /\ pages' = 0
    /\ requests' = <<>>
    /\ exitCode' = -1
    /\ finished' = FALSE
    /\ gap' = "none"
    /\ UNCHANGED <<calc, cf, env, variant>>

Next ==
    \/ ForceFetch \/ ForceItem \/ ForceReportSuccess \/ ForceReportFailed
    \/ DirectFetch \/ DirectItem \/ DirectReportSuccess \/ DirectReportFailed
    \/ RetryFetch \/ RetryItem \/ RetryReportSuccess \/ RetryReportFailed
    \/ FreshFetch \/ FreshItem \/ FreshReportSuccess \/ FreshReportFailed
    \/ LegacyFetch \/ LegacyItem \/ LegacyReportSuccess \/ LegacyReportFailed
    \/ WebhookFetch \/ WebhookItem \/ WebhookFinish
    \/ Boot
    \/ Restart

Spec == Init /\ [][Next]_vars

\* The event loop runs every continuation that is ready: a step that can be
\* taken is taken.
LiveSpec == Init /\ [][Next]_vars /\ WF_vars(Next)

(***************************************************************************)
(* The challenge handlers, one call followed probe by probe:               *)
(*   passCloudflare   src/unnamed/part_003 188-211  (variant "retry")      *)
(*   passCloudflare   src/unnamed/part_004 143-165  (variant               *)
(*                    "freshContext", same loop, twice the ceiling)        *)
(*   warmUpPage       src/scripts/uscis_check.cjs 662-670                  *)
(*                    (variant "primaryLegacy")                            *)
(* Time is counted in ticks.  The page shows the challenge up to and       *)
(* including probe cf.clearsAt (for ever when cf.never); from then on it   *)
(* shows cf.clearsTo: "form" (the receipt input is visible) or "other" (a  *)
(* page without challenge signature and without receipt input).           *)
(***************************************************************************)

\* maxWaitMs of part_003's passCloudflare, in ticks.
MaxWaitTicks == 5

\* Longest time one loop iteration of passCloudflare takes, in ticks.
MaxStep == 2

\* Latest probe after which the page clears.
MaxClearAt == 3

\* The reload cycles of warmUpPage.
WarmCycles == 3

\* maxWaitMs: 60000 in part_003, 120000 in part_004.
maxWaitMs(v) == IF v = "retry" THEN MaxWaitTicks ELSE 2 * MaxWaitTicks

\* What the n-th probe of the call finds on the page: the challenge, the
\* form, another page without challenge signature ("other"), or (for
\* waitCloudflare of the persistent-context script, variant "persistent") a
\* page that still holds a challenge hint and whose URL contains 'error'
\* ("blocked").
PageAt(n) == IF cf.never \/ n <= cf.clearsAt THEN "challenge" ELSE cf.clearsTo

ChallengeInit ==
    /\ \E v \in {"retry", "freshContext", "primaryLegacy", "persistent"} : Blank(v, 1)
    /\ env = [base |-> "set", token |-> "set"]
    /\ calc = NoCalc
    /\ \E nv \in BOOLEAN, at \in 0..MaxClearAt,
          to \in (IF variant = "persistent" THEN {"form", "other", "blocked"}
                  ELSE {"form", "other"}) :
          cf = [clock |-> 0, probes |-> 0, never |-> nv, clearsAt |-> at,
                clearsTo |-> to, result |-> "running"]

\* One iteration of passCloudflare's while loop: return true when the receipt
\* input is visible; otherwise wait (whether or not a challenge signature
\* shows) and go round again.
PassProbe ==
    /\ variant \in {"retry", "freshContext"}
    /\ cf.result = "running"
    /\ cf.clock < maxWaitMs(variant)
    /\ IF PageAt(cf.probes + 1) = "form"
       THEN cf' = [cf EXCEPT !.probes = @ + 1, !.result = "true"]
       ELSE \E d \in 1..MaxStep :
               cf' = [cf EXCEPT !.probes = @ + 1, !.clock = @ + d]
    /\ UNCHANGED <<calc, gap, env, variant, run, pc, fetched, payload, queue, idx, successes, failures,
                   tried, browser, pages, requests, exitCode, finished>>

\* passCloudflare's loop condition fails: return false.
PassCeiling ==
    /\ variant \in {"retry", "freshContext"}
    /\ cf.result = "running"
    /\ cf.clock >= maxWaitMs(variant)
    /\ cf' = [cf EXCEPT !.result = "false"]
    /\ UNCHANGED <<calc, gap, env, variant, run, pc, fetched, payload, queue, idx, successes, failures,
                   tried, browser, pages, requests, exitCode, finished>>

\* One iteration of warmUpPage's for loop: return true when the page is not a
\* challenge page; otherwise sleep and reload.
WarmProbe ==
    /\ variant = "primaryLegacy"
    /\ cf.result = "running"
    /\ cf.probes < WarmCycles
    /\ IF PageAt(cf.probes + 1) # "challenge"
       THEN cf' = [cf EXCEPT !.probes = @ + 1, !.result = "true"]
       ELSE \E d \in 1..MaxStep :
               cf' = [cf EXCEPT !.probes = @ + 1, !.clock = @ + d]
    /\ UNCHANGED <<calc, gap, env, variant, run, pc, fetched, payload, queue, idx, successes, failures,
                   tried, browser, pages, requests, exitCode, finished>>

\* warmUpPage after its loop: the last check decides.
WarmFinal ==
    /\ variant = "primaryLegacy"
    /\ cf.result = "running"
    /\ cf.probes = WarmCycles
    /\ cf' = [cf EXCEPT !.probes = @ + 1,
                        !.result = IF PageAt(cf.probes + 1) # "challenge"
                                   THEN "true" ELSE "false"]
    /\ UNCHANGED <<calc, gap, env, variant, run, pc, fetched, payload, queue, idx, successes, failures,
                   tried, browser, pages, requests, exitCode, finished>>

\* One iteration of waitCloudflare's while loop (part_004 463-470): return
\* when the content holds no hint; otherwise wait a second, and leave the
\* loop when the URL contains 'error'.  After the loop the function throws
\* only when timeoutMs has passed.
WaitProbe ==
    /\ variant = "persistent"
    /\ cf.result = "running"
    /\ cf.clock < maxWaitMs(variant)
    /\ LET page == PageAt(cf.probes + 1) IN
       IF page \in {"form", "other"}
       THEN cf' = [cf EXCEPT !.probes = @ + 1, !.result = "returned"]
       ELSE \E d \in 1..MaxStep :
               cf' = [cf EXCEPT !.probes = @ + 1, !.clock = @ + d,
                                !.result = IF page = "blocked"
                                           THEN IF cf.clock + d >= maxWaitMs(variant)
                                                THEN "thrown" ELSE "returned"
                                           ELSE "running"]
    /\ UNCHANGED <<calc, gap, env, variant, run, pc, fetched, payload, queue, idx, successes,
                   failures, tried, browser, pages, requests, exitCode, finished>>

\* waitCloudflare's loop condition fails: the time is up, it throws.
WaitCeiling ==
    /\ variant = "persistent"
    /\ cf.result = "running"
    /\ cf.clock >= maxWaitMs(variant)
    /\ cf' = [cf EXCEPT !.result = "thrown"]
    /\ UNCHANGED <<calc, gap, env, variant, run, pc, fetched, payload, queue, idx, successes,
                   failures, tried, browser, pages, requests, exitCode, finished>>

ChallengeNext ==
    \/ PassProbe \/ PassCeiling \/ WarmProbe \/ WarmFinal
    \/ WaitProbe \/ WaitCeiling

ChallengeSpec == ChallengeInit /\ [][ChallengeNext]_vars

(***************************************************************************)
(* Helper functions, one call each: the call's input is drawn at the start *)
(* and one action applies the function.                                    *)
(***************************************************************************)

\* Longest selector chain.
MaxCandidates == 3

\* A page as a selector chain sees it: for each candidate, in declared
\* order, whether its element is absent, present but hidden, or visible.
ChainPages == UNION {[1..n -> {"absent", "hidden", "visible"}] : n \in 1..MaxCandidates}

\* firstVisible (part_003): the candidates in order, each waited for with
\* state 'visible'; the first that becomes visible, or null (0).
RECURSIVE firstVisible(_, _)
firstVisible(page, i) ==
    IF i > Len(page) THEN 0
    ELSE IF page[i] = "visible" THEN i
    ELSE firstVisible(page, i + 1)

\* The loops of tryFormFlow (uscis_check.cjs 162-169) and checkCase
\* (part_004 500-507): the first candidate whose element exists (locator
\* count above 0, page.$ not null), visible or not; 0 when none exists.
RECURSIVE firstPresent(_, _)
firstPresent(page, i) ==
    IF i > Len(page) THEN 0
    ELSE IF page[i] # "absent" THEN i
    ELSE firstPresent(page, i + 1)

\* The state outside a run, with one helper call c about to be made.
HelperStart(c) ==
    /\ Blank("forceQueue", 1)
    /\ env = [base |-> "set", token |-> "set"]
    /\ cf = NoCall
    /\ calc = c

\* Longest string, in symbols.
MaxLen == 4

\* Strings are sequences of symbols: "o" an origin such as https://api.test,
\* "/" a slash, "s" the text api/uscis, "q" the text queue, "?" the start of a
\* query or fragment, " " a white-space character.
Symbols == {"o", "/", "s", "q", "?", " "}

Strings == UNION {[1..n -> Symbols] : n \in 0..MaxLen}

\* s without its trailing (leading) run of the symbol c.
RECURSIVE StripEnd(_, _)
StripEnd(s, c) ==
    IF s # <<>> /\ s[Len(s)] = c THEN StripEnd(SubSeq(s, 1, Len(s) - 1), c) ELSE s

RECURSIVE StripStart(_, _)
StripStart(s, c) ==
    IF s # <<>> /\ s[1] = c THEN StripStart(SubSeq(s, 2, Len(s)), c) ELSE s

\* String.prototype.trim.
Trim(s) == StripEnd(StripStart(s, " "), " ")

EndsWith(s, suf) ==
    Len(s) >= Len(suf) /\ SubSeq(s, Len(s) - Len(suf) + 1, Len(s)) = suf

\* replace(/<suf>$/, ''): s without the suffix suf when it ends with it.
DropSuffix(s, suf) == IF EndsWith(s, suf) THEN SubSeq(s, 1, Len(s) - Len(suf)) ELSE s

\* replace(/[?#].*$/, ''): s up to its first "?".
RECURSIVE CutQuery(_)
CutQuery(s) ==
    IF s = <<>> THEN s
    ELSE IF s[1] = "?" THEN <<>>
    ELSE <<s[1]>> \o CutQuery(SubSeq(s, 2, Len(s)))

\* normalizeBase of uscis_check.cjs:
\* String(u || '').trim().replace(/\/+$/, '').replace(/\/api\/uscis\/?$/, '')
normalizeBase(u) ==
    LET b == StripEnd(Trim(u), "/") IN
    IF EndsWith(b, <<"/", "s", "/">>) THEN DropSuffix(b, <<"/", "s", "/">>)
    ELSE DropSuffix(b, <<"/", "s">>)

\* normalizeBase of part_006: trim, cut the query, strip the trailing
\* slashes, strip a final /queue.
normalizeBaseQueue(u) ==
    DropSuffix(StripEnd(CutQuery(Trim(u)), "/"), <<"/", "q">>)

\* Most trailing slashes on a supplied API_BASE.
MaxSlashes == 2

\* n slashes.
Slashes(n) == [i \in 1..n |-> "/"]

\* API_BASE as supplied: the origin, with or without the /api/uscis suffix,
\* followed by any number of slashes.
BaseForms ==
    {<<"o">> \o suffix \o Slashes(n) : suffix \in {<<>>, <<"/", "s">>}, n \in 0..MaxSlashes}

Endpoints == {"queue", "report", "report-failed"}

\* apiUrl of uscis_check.cjs: `${API_BASE_URL}/api/uscis/${endpoint}` with
\* API_BASE_URL = normalizeBase(process.env.API_BASE).
apiUrl(base, endpoint) == normalizeBase(base) \o <<"/", "s", "/", endpoint>>

\* apiUrl of part_001: the base without its trailing slashes, then
\* /api/uscis/ and the endpoint.
apiUrlDirect(base, endpoint) == StripEnd(base, "/") \o <<"/", "s", "/", endpoint>>

\* makeApiUrl of part_003: new URL(path, BASE_URL) with path = /<endpoint>
\* when BASE_URL's pathname ends with /api/uscis or /api/uscis/, and
\* /api/uscis/<endpoint> otherwise.  An absolute path replaces the
\* pathname of the base: the result is the origin followed by path.
makeApiUrl(base, endpoint) ==
    LET pathname == Tail(Trim(base))
        BASE_HAS_USCIS == EndsWith(pathname, <<"/", "s">>) \/ EndsWith(pathname, <<"/", "s", "/">>)
        path == IF BASE_HAS_USCIS THEN <<"/", endpoint>> ELSE <<"/", "s", "/", endpoint>>
    IN  <<Head(Trim(base))>> \o path

\* A queue payload as the API may shape it: the key the item array is under,
\* the field that holds each item's correlation key, the number of items.
\* Item i carries the correlation key i.
QueueShapes == [key : {"queue", "tramites", "items"}, field : {"tramite_id", "id"},
                n : 1..MaxQueue]

\* The correlation keys of the work list a client builds that looks for the
\* array under the keys `keys` and reads the correlation key from the
\* fields `fields` (0: the client finds none).
WorkList(shape, keys, fields) ==
    IF shape.key \in keys
    THEN [i \in 1..shape.n |-> IF shape.field \in fields THEN i ELSE 0]
    ELSE <<>>

\* part_003: fetchQueue takes data.queue or data.tramites; main reads item.tramite_id.
fetchQueue(shape) == WorkList(shape, {"queue", "tramites"}, {"tramite_id"})

\* uscis_check.cjs 266-281: queuePayload.tramites (or receipts, bare receipt
\* numbers); t.tramite_id ?? t.id.
normalizeQueue(shape) == WorkList(shape, {"tramites"}, {"tramite_id", "id"})

\* part_005 88-95 and 118: data.items or data.queue; tramite_id ?? id.
compatItems(shape) == WorkList(shape, {"items", "queue"}, {"tramite_id", "id"})

\* The submit step of tryFormFlow (uscis_check.cjs 172-182): the first submit
\* candidate that exists is clicked; when none exists, Enter is pressed.
submitFormFlow(page) ==
    LET c == firstPresent(page, 1) IN
    [control |-> c, step |-> IF c > 0 THEN "click" ELSE "enter"]

\* The submit step of scrapeOne (part_003 285-297): the first visible
\* candidate is clicked; when firstVisible returns null the attempt throws
\* 'Submit button not found'.
submitScrapeOne(page) ==
    LET c == firstVisible(page, 1) IN
    [control |-> c, step |-> IF c > 0 THEN "click" ELSE "throw"]

\* The submit step of fetchCaseHtml (part_006 82-100): the first candidate
\* that exists is clicked; when none exists the function throws.
submitFetchCaseHtml(page) ==
    LET c == firstPresent(page, 1) IN
    [control |-> c, step |-> IF c > 0 THEN "click" ELSE "throw"]

\* Longest QUEUE_LIMIT value, in characters.
MaxDigits == 3

\* The characters of a QUEUE_LIMIT value: a sign, digits, a letter.
LimitChars == {"-", "0", "1", "5", "x"}

\* process.env.QUEUE_LIMIT: unset, or a string s (<<>> is the empty string).
LimitInputs ==
    {[set |-> FALSE, s |-> <<>>]}
    \cup [set : {TRUE}, s : UNION {[1..n -> LimitChars] : n \in 0..MaxDigits}]

\* The string parseInt is given: process.env.QUEUE_LIMIT || '10'.
LimitOrDefault(raw) == IF ~raw.set \/ raw.s = <<>> THEN <<"1", "0">> ELSE raw.s

IsDigit(c) == c \in {"0", "1", "5"}

DigitVal(c) == CASE c = "0" -> 0 [] c = "1" -> 1 [] OTHER -> 5

\* The value of the longest run of digits at the start of s, after the
\* digits already read (acc); NaN when there is no digit at all.
RECURSIVE DigitsPrefix(_, _, _)
DigitsPrefix(s, acc, any) ==
    IF s # <<>> /\ IsDigit(Head(s))
    THEN DigitsPrefix(Tail(s), 10 * acc + DigitVal(Head(s)), TRUE)
    ELSE [nan |-> ~any, n |-> acc]

\* parseInt(s, 10): an optional sign, then the leading digits; what follows
\* the digits is ignored.
parseInt(s) ==
    LET neg == s # <<>> /\ Head(s) = "-"
        n == DigitsPrefix(IF neg THEN Tail(s) ELSE s, 0, FALSE)
    IN  [nan |-> n.nan, n |-> IF neg THEN 0 - n.n ELSE n.n]

\* A limit that is checked for being a number only.
queueLimitUnchecked(raw) ==
    LET p == parseInt(LimitOrDefault(raw))
    IN  IF p.nan THEN 10 ELSE p.n

\* Lines 25-26: parseInt(process.env.QUEUE_LIMIT || '10', 10), replaced by
\* 10 when it is not finite, below 1 or above 100.
queueLimit(raw) ==
    LET p == parseInt(LimitOrDefault(raw))
    IN  IF p.nan \/ p.n < 1 \/ p.n > 100 THEN 10 ELSE p.n

\* A parameter value: undefined, or a number (String(n) is never blank).
Undefined == [defined |-> FALSE, n |-> 0]
Num(n) == [defined |-> TRUE, n |-> n]

\* The query parameters apiUrl appends (72-77): those whose value is not
\* undefined, null or blank, in the order given.
apiUrlParams(params) == SelectSeq(params, LAMBDA p : p.v.defined)

\* Lines 258-261: apiUrl('queue', { force: shouldForceQueue ? '1' : undefined,
\* limit: queueLimit }).
queueUrlParams(force, raw) ==
    apiUrlParams(<<[k |-> "force", v |-> IF force THEN Num(1) ELSE Undefined],
                   [k |-> "limit", v |-> Num(queueLimit(raw))]>>)

\* The submit step of scrapeCase (uscis_check.cjs 889-905) before it runs:
\* neither the click nor the key press was issued, the form was not submitted.
NotSubmitted == [click |-> "none", press |-> "none", submits |-> 0]

\* The helper calls followed, each with its input.
HelperCalls ==
    [op : {"firstVisible", "tryFormFlow", "checkCase"}, in : ChainPages,
     out : {<<>>}, done : {FALSE}]
    \cup [op : {"normalizeBase", "normalizeBaseQueue"}, in : Strings,
          out : {<<>>}, done : {FALSE}]
    \cup [op : {"submitFormFlow", "submitScrapeOne", "submitFetchCaseHtml"},
          in : ChainPages, out : {<<>>}, done : {FALSE}]
    \cup [op : {"queueUrl"}, in : [force : BOOLEAN, raw : LimitInputs],
          out : {<<>>}, done : {FALSE}]
    \cup [op : {"scrapeCaseSubmit"}, in : [button : {"present", "absent"}],
          out : {NotSubmitted}, done : {FALSE}]
    \cup [op : {"fetchQueue", "normalizeQueue", "compatItems"}, in : QueueShapes,
          out : {<<>>}, done : {FALSE}]
    \cup [op : {"apiUrl", "apiUrlDirect", "makeApiUrl"},
          in : [base : BaseForms, endpoint : Endpoints], out : {<<>>}, done : {FALSE}]

HelperInit == \E c \in HelperCalls : HelperStart(c)

\* What a helper call leaves alone.
HelperFrame ==
    UNCHANGED <<gap, cf, env, variant, run, pc, fetched, payload, queue, idx, successes,
                failures, tried, browser, pages, requests, exitCode, finished>>

ResolveFirstVisible ==
    /\ calc.op = "firstVisible" /\ ~calc.done
    /\ calc' = [calc EXCEPT !.out = firstVisible(calc.in, 1), !.done = TRUE]
    /\ HelperFrame

ResolveFormInput ==
    /\ calc.op = "tryFormFlow" /\ ~calc.done
    /\ calc' = [calc EXCEPT !.out = firstPresent(calc.in, 1), !.done = TRUE]
    /\ HelperFrame

ResolveCheckCase ==
    /\ calc.op = "checkCase" /\ ~calc.done
    /\ calc' = [calc EXCEPT !.out = firstPresent(calc.in, 1), !.done = TRUE]
    /\ HelperFrame

\* normalizeBase applied to the input, and to its own result.
NormalizeTwice ==
    /\ calc.op = "normalizeBase" /\ ~calc.done
    /\ calc' = [calc EXCEPT !.out = [once |-> normalizeBase(calc.in),
                                      twice |-> normalizeBase(normalizeBase(calc.in))],
                            !.done = TRUE]
    /\ HelperFrame

NormalizeQueueTwice ==
    /\ calc.op = "normalizeBaseQueue" /\ ~calc.done
    /\ calc' = [calc EXCEPT !.out = [once |-> normalizeBaseQueue(calc.in),
                                      twice |-> normalizeBaseQueue(normalizeBaseQueue(calc.in))],
                            !.done = TRUE]
    /\ HelperFrame

\* The URL each variant builds for an endpoint.
BuildApiUrl ==
    /\ calc.op = "apiUrl" /\ ~calc.done
    /\ calc' = [calc EXCEPT !.out = apiUrl(calc.in.base, calc.in.endpoint), !.done = TRUE]
    /\ HelperFrame

BuildApiUrlDirect ==
    /\ calc.op = "apiUrlDirect" /\ ~calc.done
    /\ calc' = [calc EXCEPT !.out = apiUrlDirect(calc.in.base, calc.in.endpoint),
                            !.done = TRUE]
    /\ HelperFrame

BuildMakeApiUrl ==
    /\ calc.op = "makeApiUrl" /\ ~calc.done
    /\ calc' = [calc EXCEPT !.out = makeApiUrl(calc.in.base, calc.in.endpoint),
                            !.done = TRUE]
    /\ HelperFrame

\* The work list each queue client builds from the payload.
ReadQueuePayload ==
    /\ calc.op \in {"fetchQueue", "normalizeQueue", "compatItems"} /\ ~calc.done
    /\ calc' = [calc EXCEPT !.out = CASE calc.op = "fetchQueue" -> fetchQueue(calc.in)
                                       [] calc.op = "normalizeQueue" -> normalizeQueue(calc.in)
                                       [] OTHER -> compatItems(calc.in),
                            !.done = TRUE]
    /\ HelperFrame

\* The submit step of each form flow on a page with the given submit controls.
SubmitForm ==
    /\ calc.op \in {"submitFormFlow", "submitScrapeOne", "submitFetchCaseHtml"}
    /\ ~calc.done
    /\ calc' = [calc EXCEPT !.out = CASE calc.op = "submitFormFlow" -> submitFormFlow(calc.in)
                                       [] calc.op = "submitScrapeOne" -> submitScrapeOne(calc.in)
                                       [] OTHER -> submitFetchCaseHtml(calc.in),
                            !.done = TRUE]
    /\ HelperFrame

\* Promise.any([page.click(submit), page.press(input, 'Enter')]): the array
\* is built first, so both calls are made and both operations are under way
\* against the page before Promise.any looks at either.
SoftIssue ==
    /\ calc.op = "scrapeCaseSubmit" /\ ~calc.done
    /\ calc.out = NotSubmitted
    /\ calc' = [calc EXCEPT !.out = [click |-> "issued", press |-> "issued", submits |-> 0]]
    /\ HelperFrame

\* The click is carried out.  It submits the form when the button is there;
\* once the form was submitted the page is navigating, and the click either
\* still reaches its element or fails.
SoftClick ==
    /\ calc.op = "scrapeCaseSubmit" /\ ~calc.done
    /\ calc.out.click = "issued"
    /\ \E lands \in BOOLEAN :
          /\ lands => calc.in.button = "present"
          /\ (calc.out.submits = 0 /\ calc.in.button = "present") => lands
          /\ calc' = [calc EXCEPT !.out.click = IF lands THEN "done" ELSE "failed",
                                  !.out.submits = IF lands THEN @ + 1 ELSE @,
                                  !.done = calc.out.press # "issued"]
    /\ HelperFrame

\* The Enter key press is carried out on the input (which fill() has found).
SoftPress ==
    /\ calc.op = "scrapeCaseSubmit" /\ ~calc.done
    /\ calc.out.press = "issued"
    /\ \E lands \in BOOLEAN :
          /\ calc.out.submits = 0 => lands
          /\ calc' = [calc EXCEPT !.out.press = IF lands THEN "done" ELSE "failed",
                                  !.out.submits = IF lands THEN @ + 1 ELSE @,
                                  !.done = calc.out.click # "issued"]
    /\ HelperFrame

\* The query string of the queue GET of the force-queue script.
BuildQueueUrl ==
    /\ calc.op = "queueUrl" /\ ~calc.done
    /\ calc' = [calc EXCEPT !.out = queueUrlParams(calc.in.force, calc.in.raw),
                            !.done = TRUE]
    /\ HelperFrame

HelperNext ==
    \/ ResolveFirstVisible \/ ResolveFormInput \/ ResolveCheckCase
    \/ NormalizeTwice \/ NormalizeQueueTwice
    \/ BuildApiUrl \/ BuildApiUrlDirect \/ BuildMakeApiUrl
    \/ ReadQueuePayload
    \/ SubmitForm
    \/ SoftIssue \/ SoftClick \/ SoftPress
    \/ BuildQueueUrl

HelperSpec == HelperInit /\ [][HelperNext]_vars

(***************************************************************************)
(* Properties.                                                             *)
(***************************************************************************)

\* The positions in requests of the requests sent to endpoint ep that failed.
FailedPosts(ep) == {i \in 1..Len(requests) : requests[i].ep = ep /\ ~requests[i].ok}

\* C1: for a queue of N items, when the item loop has finished the success
\* list and the failure list together hold N entries: no item is dropped.
C1_EveryItemClassified ==
    (variant \in {"forceQueue", "directForm"} /\ pc = "reportFailed")
        => Len(successes) + Len(failures) = Len(payload)

\* C2: a failed POST of the success batch ends the run with a non-zero exit
\* code and the cycle is not logged as finished.
C2_SuccessReportFailureSurfaces ==
    (variant \in {"directForm", "retry"} /\ pc = "done" /\ FailedPosts("report") # {})
        => (exitCode # 0 /\ ~finished)

\* C3: a failed POST of the failure batch is only logged: the run still ends
\* with exit code 0.
C3_FailedReportFailureOnlyLogged ==
    (variant \in {"directForm", "freshContext"} /\ pc = "done"
        /\ FailedPosts("report-failed") # {})
        => exitCode = 0

\* C4: a failed queue GET is treated as an empty queue: no report POST is sent
\* and the run exits with code 0.
C4_QueueFailureIsEmptyQueue ==
    (variant \in {"directForm", "retry", "primaryLegacy"} /\ pc = "done"
        /\ fetched \in GetOutcomes \ {"ok"})
        => (exitCode = 0 /\ Len(requests) = 1)

\* C5: with an empty queue the only API request of the run is the queue GET
\* and the process exits with code 0, in the run and in its repetition.
C5_EmptyQueueOnlyGet ==
    (pc = "done" /\ fetched = "ok" /\ payload = <<>>)
        => (exitCode = 0 /\ Len(requests) = 1 /\ requests[1].ep = "queue" /\ run \in Runs)

\* An empty queue was answered in the repetition of a run, and the run ended.
C5_EmptyQueueRepeated ==
    pc = "done" /\ fetched = "ok" /\ payload = <<>> /\ run = 2 /\ Len(requests) = 1

\* C6: no error raised while one item is processed aborts the run: a run
\* that has ended has been through every item of its queue.
C6_NoItemAbortsRun ==
    (variant \in {"directForm", "primaryLegacy", "freshContext"} /\ pc = "done")
        => idx = Len(queue)

\* C7: a run that launched a browser never ends with the browser or one of
\* its pages still open.
C7_BrowserClosedAtExit ==
    (variant \in {"forceQueue", "retry", "directForm"} /\ pc = "done" /\ browser # "none")
        => (browser = "closed" /\ pages = 0)

\* C8: once the challenge handler reports that the challenge did not clear,
\* no further attempt (fallback URL or retry) is made for that receipt.
C8_BlockedEndsScrape ==
    variant \in {"primaryLegacy", "retry"}
        => \A i \in 1..Len(tried) : tried[i].outcome = "cf_block" => i = Len(tried)

\* C9: on a page that clears after the 2nd probe the challenge handler
\* returns true at its 3rd probe and probes no further.
C9_ClearedAtThirdProbe ==
    (~cf.never /\ cf.clearsAt = 2 /\ cf.probes >= 3)
        => (cf.result = "true" /\ cf.probes = 3)

\* C10: every report POST is sent after the last queue item was processed.
C10_ReportsAfterLastItem ==
    variant \in {"directForm", "webhook", "forceQueue"}
        => \A i \in 1..Len(requests) :
              requests[i].ep # "queue" => requests[i].at = Len(queue)

\* The ids of the entries of a batch.
Ids(batch) == {batch[i].id : i \in 1..Len(batch)}

\* C11: items are processed one at a time in queue order: the outcomes
\* recorded so far are those of the first idx work-list entries, each batch
\* holds them in that order, and no entry has two outcomes.
C11_ItemsInQueueOrder ==
    /\ Ids(successes) \cup Ids(failures) \subseteq {queue[k].id : k \in 1..idx}
    /\ \A i, j \in 1..Len(successes) : i < j => successes[i].id < successes[j].id
    /\ \A i, j \in 1..Len(failures) : i < j => failures[i].id < failures[j].id
    /\ Ids(successes) \cap Ids(failures) = {}
    /\ Len(successes) + Len(failures) <= idx

\* Two items were processed one after the other, one to each batch.
C11_TwoItemsProcessed ==
    /\ variant \in {"freshContext", "directForm"}
    /\ pc = "items" /\ idx = 2
    /\ Ids(successes) = {1} /\ Ids(failures) = {2}

\* C12: with API_BASE or API_TOKEN missing or blank the process exits with a
\* non-zero code before any HTTP request is sent or any browser is launched.
C12_ConfigErrorExitsFirst ==
    (variant \in {"forceQueue", "freshContext"}
        /\ (env.base # "set" \/ env.token # "set"))
        => (requests = <<>> /\ browser = "none" /\ exitCode # 0)

\* C13: an extraction whose result container holds fewer than 200 characters
\* is never put in the success batch.
C13_ShortContentNotSuccess ==
    (variant = "directForm" /\ idx > 0 /\ tried # <<>>
        /\ tried[Len(tried)].outcome \notin {"no_input", "error"}
        /\ ContentLen(tried[Len(tried)].outcome) < 200)
        => queue[idx].id \notin Ids(successes)

\* C14: selector-chain resolution picks the first candidate in declared
\* order that is visible, and no candidate only when none is visible.
C14_FirstVisibleCandidate ==
    (calc.op \in {"firstVisible", "tryFormFlow", "checkCase"} /\ calc.done)
        => /\ calc.out = 0 <=> (\A i \in 1..Len(calc.in) : calc.in[i] # "visible")
           /\ calc.out # 0 =>
                 /\ calc.in[calc.out] = "visible"
                 /\ \A i \in 1..(calc.out - 1) : calc.in[i] # "visible"

\* C15: base-URL normalization is idempotent: normalizing a normalized base
\* gives the same base.
C15_NormalizeIdempotent ==
    (calc.op \in {"normalizeBase", "normalizeBaseQueue"} /\ calc.done)
        => calc.out.twice = calc.out.once

\* C16: whatever the form API_BASE was supplied in, the URL built for an
\* endpoint is <origin>/api/uscis/<endpoint>.
C16_OneWellFormedUrl ==
    (calc.op \in {"apiUrl", "apiUrlDirect", "makeApiUrl"} /\ calc.done)
        => calc.out = <<"o", "/", "s", "/", calc.in.endpoint>>

\* C17: under any of the array keys queue, tramites, items and with the
\* correlation key in tramite_id or in id, the same items give the same
\* non-empty work list with the same correlation keys.
C17_AnyPayloadShape ==
    (calc.op \in {"fetchQueue", "normalizeQueue", "compatItems"} /\ calc.done)
        => calc.out = [i \in 1..calc.in.n |-> i]

\* C18: when the page shows the receipt input in neither attempt, the failure
\* batch has exactly one entry for the receipt, its error is the
\* input-not-found error of both attempts, and no success is recorded for it.
C18_InputNeverShown ==
    (variant = "retry" /\ pc = "items" /\ idx > 0 /\ Len(tried) = 2
        /\ \A i \in 1..2 : tried[i].page = "no_input")
        => /\ Cardinality({j \in 1..Len(failures) : failures[j].id = queue[idx].id}) = 1
           /\ \A j \in 1..Len(failures) :
                 failures[j].id = queue[idx].id
                     => failures[j].error = <<"Receipt input not found",
                                              "Receipt input not found">>
           /\ \A j \in 1..Len(successes) : successes[j].id # queue[idx].id

\* C19: every run that starts reaches its end or an exit.
C19_EveryRunEnds == (pc = "boot") ~> (pc = "done")

\* C20: in the variants that open a page per item, no page is open between
\* two items: every page opened for an item is closed before the next item
\* starts, so the number of open pages does not grow.
C20_NoPageLeftOpen ==
    (variant \in {"directForm", "freshContext", "primaryLegacy"} /\ pc = "items")
        => pages = 0

\* C21: passCloudflare reports the page as stuck (returns false) only when
\* the last probe still found a challenge signature; a page without any
\* signature is never reported as stuck.
C21_NoSignatureNeverStuck ==
    (variant \in {"retry", "freshContext"} /\ cf.result = "false")
        => PageAt(cf.probes) = "challenge"

\* C22: scrapeOne makes at most two attempts, none after a successful one,
\* and when both fail the error recorded for the item is the error of the
\* last attempt.  (With two attempts there is one delay between attempts.)
C22_LastAttemptDecides ==
    (variant = "retry" /\ pc = "items" /\ idx > 0 /\ tried # <<>>)
        => /\ Len(tried) <= 2
           /\ \A i \in 1..(Len(tried) - 1) : tried[i].outcome # "ok"
           /\ tried[Len(tried)].outcome # "ok"
                 => \E j \in 1..Len(failures) :
                       /\ failures[j].id = queue[idx].id
                       /\ failures[j].error = <<RetryMsg(tried[Len(tried)].outcome)>>

\* C23: when the submit selector chain finds no control, the form flow
\* presses Enter in the input field and goes on; it does not fail the attempt.
C23_EnterWhenNoControl ==
    (calc.op \in {"submitFormFlow", "submitScrapeOne", "submitFetchCaseHtml"}
        /\ calc.done /\ calc.out.control = 0)
        => calc.out.step = "enter"

\* C24: when the item loop goes from a scraped item to the next item, a
\* randomized pause was made after the scraped one.
C24_JitterBetweenItems ==
    (pc = "items" /\ 0 < idx /\ idx < Len(queue) /\ tried # <<>>)
        => gap = "jitter"

\* C25: an attempt during which the challenge came back after the submit and
\* did not clear puts no entry for its item in the success batch.
C25_ChallengeAfterSubmitNotSuccess ==
    (variant = "retry" /\ pc = "items" /\ idx > 0 /\ tried # <<>>
        /\ tried[Len(tried)].page = "challenge_after")
        => \A j \in 1..Len(successes) : successes[j].id # queue[idx].id

\* C26: every entry of the success batch carries a tramite_id, and an item
\* scraped successfully whose queue entry has no tramite_id is in the
\* failure batch.
C26_SuccessHasTramiteId ==
    variant \in {"directForm", "retry", "forceQueue"}
        => /\ \A j \in 1..Len(successes) : successes[j].tid
           /\ (pc = "items" /\ idx > 0 /\ tried # <<>>
                  /\ tried[Len(tried)].outcome = "ok" /\ ~HasTid(queue[idx].kind))
                 => \E j \in 1..Len(failures) : failures[j].id = queue[idx].id

\* C27: in the primary/legacy variant an item causes at most two attempts,
\* the second on the legacy URL and only after the primary attempt returned
\* an error; a success on the primary URL is final; the batch entry of the
\* item is the result of the last attempt made.
C27_LegacyOnlyAfterError ==
    (variant = "primaryLegacy" /\ pc = "items" /\ idx > 0 /\ tried # <<>>)
        => LET n == Len(tried)
               id == queue[idx].id
               InSucc == \E j \in 1..Len(successes) : successes[j].id = id
               FailErrs == {failures[j].error :
                               j \in {k \in 1..Len(failures) : failures[k].id = id}}
           IN  /\ n <= 2
               /\ tried[1].url = "landing"
               /\ n = 2 => /\ tried[2].url = "legacy"
                           /\ tried[1].outcome \in {"cf_block", "no_input", "error"}
               /\ tried[1].outcome = "ok" => n = 1
               /\ IF tried[n].outcome = "ok"
                  THEN InSucc /\ FailErrs = {}
                  ELSE /\ ~InSucc
                       /\ FailErrs = {CASE tried[n].outcome = "cf_block" -> "cloudflare_block"
                                        [] tried[n].outcome = "no_input" -> "element_timeout"
                                        [] tried[n].outcome = "empty" -> "null"
                                        [] OTHER -> "generic_error"}

\* A legacy attempt that succeeded after a failed primary attempt.
C27_LegacyRescued ==
    /\ variant = "primaryLegacy" /\ pc = "items" /\ idx > 0
    /\ Len(tried) = 2
    /\ tried[1].outcome = "cf_block"
    /\ tried[2].outcome = "ok"
    /\ \E j \in 1..Len(successes) : successes[j].id = queue[idx].id

\* C28: in scrapeCase the click on the submit button and the Enter key press
\* are alternatives: they are never both issued for one attempt, and the
\* form is submitted at most once.
C28_ClickOrEnter ==
    calc.op = "scrapeCaseSubmit"
        => /\ calc.out.click = "none" \/ calc.out.press = "none"
           /\ calc.out.submits <= 1

\* C29: waitCloudflare returns without throwing only when the page it probed
\* last holds no challenge hint, and throws when the hint is still there.
C29_ReturnsOnlyWhenClear ==
    (variant = "persistent" /\ cf.result \in {"returned", "thrown"})
        => (cf.result = "returned" <=> PageAt(cf.probes) \in {"form", "other"})

\* C30: the queue GET of the force-queue variant always carries exactly one
\* limit parameter, an integer in 1..100; it is 10 when QUEUE_LIMIT is unset
\* or empty, when parseInt finds no number in it, and when the number is
\* below 1 or above 100; otherwise it is the number parseInt reads.
C30_LimitInRange ==
    (calc.op = "queueUrl" /\ calc.done)
        => LET L == {i \in 1..Len(calc.out) : calc.out[i].k = "limit"}
               raw == calc.in.raw
               p == parseInt(raw.s)
               replaced == ~raw.set \/ raw.s = <<>> \/ p.nan \/ p.n < 1 \/ p.n > 100
           IN  /\ Cardinality(L) = 1
               /\ \A i \in L :
                     /\ calc.out[i].v.defined
                     /\ calc.out[i].v.n \in 1..100
                     /\ calc.out[i].v.n = IF replaced THEN 10 ELSE p.n

\* A QUEUE_LIMIT above 100 was replaced by 10 in the URL built.
C30_LargeLimitReplaced ==
    /\ calc.op = "queueUrl" /\ calc.done
    /\ calc.in.raw = [set |-> TRUE, s |-> <<"1", "0", "1">>]
    /\ \E i \in 1..Len(calc.out) : calc.out[i] = [k |-> "limit", v |-> Num(10)]

====
